---- MODULE Spec2Model ----
(***************************************************************************)
(* A model of libalpaca: the size arithmetic (deterministic.rs), the       *)
(* distribution sampler (distribution.rs), the two page-morphing entry     *)
(* points and morph_object (morphing.rs), the padding (pad.rs), the query  *)
(* parser (parsing.rs) and the resolution of references (dom.rs).          *)
(*                                                                         *)
(* usize values are modelled as naturals: every size in the model is far   *)
(* below usize::MAX, so no addition of the modelled code can wrap.         *)
(* Option<T> is modelled as a sequence: << >> is None, <<x>> is Some(x).   *)
(***************************************************************************)
EXTENDS Integers, Sequences, FiniteSets, TLC

VARIABLES
    a_fn,       \* size arithmetic: the function under call
    a_step,     \* its step argument (num / obj_size)
    a_bound,    \* its second argument (min / max_obj_size)
    a_n,        \* get_multiples_in_range: the number of values asked for
    a_out       \* the outcome of the call, or Pending

VARIABLES
    s_dist,     \* sampler: the Dist drawn from
    s_lower,    \* sample_ge: lower_bound
    s_i,        \* sample_ge: iterations of the loop completed without a return
    s_draws,    \* history: calls of sample made so far
    s_below,    \* history: how many of those draws were below lower_bound
    s_U,        \* sample: the last uniform draw, in units of 1/Resolution (0: none)
    s_out       \* the outcome of the call, or Pending

VARIABLES
    strategy,       \* the entry point: "Dalpaca" or "Palpaca", or "none"
    pc,             \* the position in the entry point and its strategy
    html,           \* the html Object: the document and what was changed in it
    found,          \* history: the objects as parse_objects and the sort left them
    objects,        \* Vec<Object>: the objects of the page
    min_count,      \* objects.len() on entry (n, min_count, initial_obj_no)
    cfg,            \* Dalpaca: obj_num, obj_size, max_obj_size
    specs,          \* Palpaca: dist_html, dist_obj_num, dist_obj_size
    dists,          \* Palpaca: the Distributions, once constructed
    target_count,
    target_sizes,   \* Palpaca: the sorted target sizes; Dalpaca: fake_objects_sizes
    idx,            \* the index of the running loop
    next_to_morph,
    missing,        \* the uris of the warning of morph_from_distribution
    morphed,        \* the result of the strategy function, or Pending
    out,            \* Some(content returned by the entry point), None before
    doc,            \* the document given: its length, and its length when serialized
    html_target,    \* Some(target_size of the html), None before it is computed
    html_size       \* Some(*html_size as the entry point set it), None before

VARIABLES
    q_fn,       \* a function called on its own: the function under call
    q_arg,      \* its arguments
    q_out       \* the outcome of the call, or Pending

callVars == <<q_fn, q_arg, q_out>>
arithVars == <<a_fn, a_step, a_bound, a_n, a_out>>
morphVars == <<strategy, pc, html, found, objects, min_count, cfg, specs, dists, target_count,
               target_sizes, idx, next_to_morph, missing, morphed, out,
               doc, html_target, html_size>>
sampleVars == <<s_dist, s_lower, s_i, s_draws, s_below, s_U, s_out>>

vars == <<a_fn, a_step, a_bound, a_n, a_out,
          s_dist, s_lower, s_i, s_draws, s_below, s_U, s_out,
          strategy, pc, html, found, objects, min_count, cfg, specs, dists, target_count,
          target_sizes, idx, next_to_morph, missing, morphed, out,
          doc, html_target, html_size,
          q_fn, q_arg, q_out>>

----------------------------------------------------------------------------
(* Bounds of the model *)

MaxStep == 3
MaxBound == 7
MaxN == 2
MaxObjects == 2     \* objects of a page of any kinds and lengths
MaxPage == 6        \* objects of a page of equal images
MaxObjNum == 3
MaxParams == 3      \* parameters of a named spec
MaxLines == 2       \* lines of a distribution file
MaxQuery == 4       \* characters of a query string
MaxLink == 4        \* characters of a reference in the document
MaxRel == 4         \* components of a reference in the document
MaxSupport == 2     \* rows of a custom distribution table
Resolution == 10    \* probabilities and uniform draws are multiples of 1/Resolution

----------------------------------------------------------------------------
(* Outcomes of a call *)

Pending == [status |-> "pending"]
Ok(v) == [status |-> "ok", value |-> v]
Err(e) == [status |-> "err", error |-> e]
Panic == [status |-> "panic"]
Diverges == [status |-> "diverges"]

None == << >>
Some(x) == <<x>>

SeqsUpTo(S, k) == UNION {[1 .. m -> S] : m \in 0 .. k}

----------------------------------------------------------------------------
(* deterministic.rs *)

RECURSIVE get_multiple_loop_le(_, _, _)
get_multiple_loop_le(count, num, min) ==
    IF count <= min /\ num > 0
    THEN get_multiple_loop_le(count + num, num, min)
    ELSE count

\* The loop `while count < min { count += num; }`.
RECURSIVE get_multiple_loop(_, _, _)
get_multiple_loop(count, num, min) ==
    IF count < min THEN get_multiple_loop(count + num, num, min) ELSE count

\* With num = 0 the loop adds nothing: it exits only if it never starts.
get_multiple_diverges(num, min) == num = 0 /\ 0 < min

get_multiple(num, min) == get_multiple_loop(num, num, min)

UniformRange_from_zero(max) == 0 .. (max - 1)

\* The values Uniform::from(1..max) can sample: max is excluded.
UniformRange(max) == 1 .. (max - 1)

get_multiples_in_range_excl(obj_size, max_obj_size, n) ==
    IF obj_size = 0 THEN {Panic}
    ELSE IF (obj_size > max_obj_size) \/ (max_obj_size % obj_size # 0)
         THEN {Err("InvalidRange")}
    ELSE LET max == max_obj_size \div obj_size
         IN  {Ok(sizes) : sizes \in [1 .. n -> {num * obj_size : num \in UniformRange(max)}]}

\* The set of outcomes of get_multiples_in_range: obj_size = 0 panics on
\* `max_obj_size % obj_size`; an inconsistent range is Err(()); otherwise n
\* independent draws num in 1..max, each pushed as num*obj_size.
get_multiples_in_range(obj_size, max_obj_size, n) ==
    IF obj_size = 0 THEN {Panic}
    ELSE IF (obj_size > max_obj_size) \/ (max_obj_size % obj_size # 0)
         THEN {Err("InvalidRange")}
    ELSE LET max == (max_obj_size \div obj_size) + 1
         IN  {Ok(sizes) : sizes \in [1 .. n -> {num * obj_size : num \in UniformRange(max)}]}

----------------------------------------------------------------------------
(* distribution.rs: Dist and sample *)

SAMPLE_LIMIT == 30

\* A Dist.  params are f64 in the code; the model keeps them as integer
\* multiples of 1/Resolution, which the sums of the modelled tables represent
\* exactly (0.2 + 0.3 = 0.5 and 0.5 + 0.5 = 1.0 are exact in f64 too).
Dist(name, params, values) == [name |-> name, params |-> params, values |-> values]

CustomDist(values, probs) == Dist("custom", probs, Some(values))

\* rand_distr::OpenClosed01: a uniform real in (0, 1].
OpenClosed01 == 1 .. Resolution

\* What a draw from a parametric family, cast `as usize`, can be.
FamilyDraws == {0, 2, 3}

RECURSIVE custom_loop_gt(_, _, _, _, _)
custom_loop_gt(dist, values, i, sum, probability) ==
    IF i > Len(values) THEN values[Len(values)]
    ELSE LET sum2 == sum + dist.params[i]
         IN  IF sum2 > probability THEN values[i]
             ELSE custom_loop_gt(dist, values, i + 1, sum2, probability)

\* The loop of the "custom" arm, from index i (1-based) with running sum
\* `sum`: the first values[i] whose cumulative sum >= probability, else the
\* initial sampled_num, values[len - 1].
RECURSIVE custom_loop(_, _, _, _, _)
custom_loop(dist, values, i, sum, probability) ==
    IF i > Len(values) THEN values[Len(values)]
    ELSE LET sum2 == sum + dist.params[i]
         IN  IF sum2 >= probability THEN values[i]
             ELSE custom_loop(dist, values, i + 1, sum2, probability)

\* The "custom" arm of sample for the uniform draw `probability`.
\* values[values.len() - 1] on an empty table panics.
sample_custom(dist, probability) ==
    LET values == dist.values[1]
    IN  IF Len(values) = 0 THEN Panic
        ELSE Ok(custom_loop(dist, values, 1, 0, probability))

\* The set of outcomes of sample(dist).
sample(dist) ==
    CASE dist.name = "custom" ->
            {sample_custom(dist, probability) : probability \in OpenClosed01}
      [] dist.name \in {"Normal", "LogNormal", "Exp", "Binomial", "Gamma"} ->
            {Ok(v) : v \in FamilyDraws}
      [] OTHER -> {Panic}

----------------------------------------------------------------------------
(* distribution.rs: sample_ge *)

Exhausted(dist) == Err(<<"SAMPLE_LIMIT", SAMPLE_LIMIT, dist.name>>)

\* The outcomes of the loop of sample_ge from iteration i on.
RECURSIVE sample_ge_from(_, _, _)
sample_ge_from(dist, lower_bound, i) ==
    IF i >= SAMPLE_LIMIT THEN {Exhausted(dist)}
    ELSE LET outs == sample(dist)
         IN  {o \in outs : o = Panic \/ o.value >= lower_bound}
             \cup (IF \E o \in outs : o # Panic /\ o.value < lower_bound
                   THEN sample_ge_from(dist, lower_bound, i + 1)
                   ELSE {})

\* The set of outcomes of sample_ge(dist, lower_bound).
sample_ge(dist, lower_bound) == sample_ge_from(dist, lower_bound, 0)

sample_ge_many_nofloor(dist, lower_bound, samples) ==
    LET one == sample_ge(dist, 0)
        oks == {o.value : o \in {x \in one : x.status = "ok"}}
    IN  {Ok(vec) : vec \in [1 .. samples -> oks]}
        \cup (IF samples >= 1 THEN {o \in one : o.status # "ok"} ELSE {})

\* sample_ge_many: `samples` calls of sample_ge, the first failure propagated.
sample_ge_many(dist, lower_bound, samples) ==
    LET one == sample_ge(dist, lower_bound)
        oks == {o.value : o \in {x \in one : x.status = "ok"}}
    IN  {Ok(vec) : vec \in [1 .. samples -> oks]}
        \cup (IF samples >= 1 THEN {o \in one : o.status # "ok"} ELSE {})

----------------------------------------------------------------------------
(* distribution.rs: parse_given_dist and Distributions::from *)

\* A token of a spec or of a distribution file: an integer literal ("10"),
\* another number literal ("0.5", val in units of 1/Resolution) or text
\* that is no number.
IntTok(v) == [lex |-> "int", val |-> v]
RealTok(v) == [lex |-> "real", val |-> v]
WordTok == [lex |-> "word", val |-> 0]

\* str::parse::<usize>
parse_usize(tok) == IF tok.lex = "int" THEN Ok(tok.val) ELSE Err("ParseIntError")

\* str::parse::<f64>
parse_f64(tok) ==
    CASE tok.lex = "int" -> Ok(tok.val * Resolution)
      [] tok.lex = "real" -> Ok(tok.val)
      [] OTHER -> Err("ParseFloatError")

\* A spec naming a file ("x.dist"): whether it can be read, and its lines,
\* each split at whitespace.
FileSpec(readable, lines) == [file |-> TRUE, readable |-> readable, lines |-> lines]

\* Any other spec: the number of parts split("/") gives, the first part and
\* the second part split at ",".
NamedSpec(parts, name, params) ==
    [file |-> FALSE, parts |-> parts, name |-> name, params |-> params]

\* The lines of a distribution file from line k on, given the vectors so far.
RECURSIVE parse_lines(_, _, _, _)
parse_lines(lines, k, values, probs) ==
    IF k > Len(lines) THEN Ok(CustomDist(values, probs))
    ELSE LET v == lines[k]
         IN  IF Len(v) # 2 THEN Err("invalid dist file")
             ELSE IF parse_usize(v[1]).status # "ok" THEN Panic
             ELSE IF parse_f64(v[2]).status # "ok" THEN Panic
             ELSE parse_lines(lines, k + 1,
                              Append(values, parse_usize(v[1]).value),
                              Append(probs, parse_f64(v[2]).value))

params_needed(name) ==
    CASE name \in {"Normal", "LogNormal", "Binomial", "Gamma"} -> Some(2)
      [] name \in {"Exp", "Poisson"} -> Some(1)
      [] OTHER -> None

parse_given_dist(dist) ==
    IF dist.file
    THEN IF ~dist.readable THEN Err("cannot open")
         ELSE parse_lines(dist.lines, 1, << >>, << >>)
    ELSE IF dist.parts # 2 THEN Err("invalid distribution")
         ELSE IF \E k \in 1 .. Len(dist.params) : parse_f64(dist.params[k]).status # "ok"
              THEN Panic
         ELSE IF params_needed(dist.name) = None THEN Err("invalid distribution")
         ELSE IF Len(dist.params) # params_needed(dist.name)[1]
              THEN Err("wrong number of params")
         ELSE Ok(Dist(dist.name,
                      [k \in 1 .. Len(dist.params) |-> parse_f64(dist.params[k]).value],
                      None))

\* Distributions::from: the three fields in order, each `?`.
Distributions_from(dist_html, dist_obj_num, dist_obj_size) ==
    LET h == parse_given_dist(dist_html)
        c == parse_given_dist(dist_obj_num)
        z == parse_given_dist(dist_obj_size)
    IN  IF h.status # "ok" THEN h
        ELSE IF c.status # "ok" THEN c
        ELSE IF z.status # "ok" THEN z
        ELSE Ok([html |-> h.value, obj_num |-> c.value, obj_size |-> z.value])

----------------------------------------------------------------------------
(* objects.rs and morphing.rs: the objects and the two strategies *)

\* An Object; content is modelled by its length.
Object(kind, content, position, target_size, uri) ==
    [kind |-> kind, content |-> content, position |-> position,
     target_size |-> target_size, uri |-> uri]

\* An object found in the page by parse_objects: target_size None.
RealObject(kind, content, position) ==
    Object(kind, content, Some(position), None, ToString(position))

\* The padding object both strategies create.
PaddingObject(s) == Object("Alpaca", 0, None, Some(s), "pad_object")

push_front(vec, o) == <<o>> \o vec

\* Vec::push
push(vec, o) == Append(vec, o)

\* Vec::sort on usize: insertion of x into a sorted vector, then the sort.
RECURSIVE sorted_insert(_, _)
sorted_insert(vec, x) ==
    IF vec = << >> THEN <<x>>
    ELSE IF x <= Head(vec) THEN <<x>> \o vec
    ELSE <<Head(vec)>> \o sorted_insert(Tail(vec), x)

RECURSIVE sort(_)
sort(vec) == IF vec = << >> THEN << >> ELSE sorted_insert(sort(Tail(vec)), Head(vec))

create_new_obj_strict(objs, next, initial_obj_no, s) ==
    IF (next < initial_obj_no) /\ (s > objs[next + 1].content)
    THEN objs[next + 1].kind = "CSS" /\ (objs[next + 1].content + 4 >= s)
    ELSE TRUE

create_new_obj_nocss(objs, next, initial_obj_no, s) ==
    ~((next < initial_obj_no) /\ (s >= objs[next + 1].content))

\* morph_from_distribution, the decision on one target size s: TRUE to
\* create a padding object, FALSE to pad objects[next_to_morph] to s.
create_new_obj(objs, next, initial_obj_no, s) ==
    IF (next < initial_obj_no) /\ (s >= objs[next + 1].content)
    THEN objs[next + 1].kind = "CSS" /\ (objs[next + 1].content + 4 > s)
    ELSE TRUE

min_size_nocss(object) == object.content

min_size_css2(object) ==
    IF object.kind = "CSS" THEN object.content + 2 ELSE object.content

\* morph_deterministic: the size an object has to reach.
min_size(object) ==
    IF object.kind = "CSS" THEN object.content + 4 ELSE object.content

fake_objects_count_plus(count, floor) == count - floor + 1

\* morph_deterministic: the number of fake objects.
fake_objects_count(count, floor) == count - floor

\* The html Object: the document given, the references rewritten in it
\* (position and size), the fake images added to it (sizes), in order, and
\* the padding appended to it.  `document` tells whether the content is
\* still the bytes given or the string insert_objects_refs built.
Html(rewritten, fakes) ==
    [document |-> "given", rewritten |-> rewritten, fakes |-> fakes, pad |-> None]

OriginalHtml == Html(<< >>, << >>)

\* insert_objects_refs: objects[0..n] are the initial objects, objects[n..]
\* the padding objects.
init_obj(objs, count) == SubSeq(objs, 1, count)
padding_obj(objs, count) == SubSeq(objs, count + 1, Len(objs))

HasTarget(object) == object.target_size # None

\* add_padding_objects: the fake images, one for every padding object in
\* order, at the end of the node named body; a document without such a
\* node is returned as it is.
add_padding_objects(has_body, pads) ==
    IF has_body THEN [k \in 1 .. Len(pads) |-> pads[k].target_size[1]] ELSE << >>

insert_objects_refs(objs, count) ==
    LET with_target == SelectSeq(init_obj(objs, count), HasTarget)
        pads == padding_obj(objs, count)
    IN  [Html([k \in 1 .. Len(with_target) |->
                   <<with_target[k].position[1], with_target[k].target_size[1]>>],
              add_padding_objects(doc.body, pads))
            EXCEPT !.document = "serialized"]

\* usize::to_string: the number of decimal digits.
RECURSIVE to_string_len(_)
to_string_len(x) == IF x < 10 THEN 1 ELSE 1 + to_string_len(x \div 10)

\* "alpaca-padding=" and the prefix character, then the size (append_ref).
PARAM_LEN == 15
new_link_growth(size) == 1 + PARAM_LEN + to_string_len(size)

\* The fake image element of add_padding_objects without its size, and the
\* "<!DOCTYPE html>" insert_objects_refs puts in front.
FAKE_ELEM_LEN == 79
DOCTYPE_LEN == 15

RECURSIVE SumOver(_, _)
SumOver(seq, k) == IF k = 0 THEN 0 ELSE SumOver(seq, k - 1) + seq[k]

NoDoc == [len |-> 0, serialized |-> 0, body |-> TRUE]

(* pad.rs *)

HTML_COMMENT_START_SIZE == 4
HTML_COMMENT_END_SIZE == 3
CSS_COMMENT_START_SIZE == 2
CSS_COMMENT_END_SIZE == 2

\* A comment of padding: the start marker, pad_len random characters, the
\* end marker.
Comment(start, pad_len, end) == [start |-> start, filler |-> pad_len, end |-> end]

pad_size(pad) == IF pad = None THEN 0 ELSE pad[1].start + pad[1].filler + pad[1].end

\* html.content.len(): the bytes given, or the string insert_objects_refs
\* built (the doctype, the document as the parser serializes it, the
\* parameter in every rewritten reference, the fake images), and the
\* padding extended to it.
content_len(h) ==
    (IF h.document = "given"
     THEN doc.len
     ELSE DOCTYPE_LEN + doc.serialized
          + SumOver([k \in 1 .. Len(h.rewritten) |-> new_link_growth(h.rewritten[k][2])],
                    Len(h.rewritten))
          + SumOver([k \in 1 .. Len(h.fakes) |-> FAKE_ELEM_LEN + to_string_len(h.fakes[k])],
                    Len(h.fakes)))
    + pad_size(h.pad)

\* get_html_padding, lines 19-20: the number of random characters.
html_pad_len(h, target_size) ==
    target_size - content_len(h) - HTML_COMMENT_START_SIZE - HTML_COMMENT_END_SIZE

\* get_html_padding: the subtractions of usize underflow when target_size
\* is below the length plus the markers (a panic, or an allocation that
\* cannot succeed: nothing is returned either way).
get_html_padding(h, target_size) ==
    IF html_pad_len(h, target_size) < 0 THEN Panic
    ELSE Ok([h EXCEPT !.pad = Some(Comment(HTML_COMMENT_START_SIZE,
                                             html_pad_len(h, target_size),
                                             HTML_COMMENT_END_SIZE))])

html_min_size_nomarkers(h) == content_len(h)

\* get_css_padding: the comment markers and pad_len - 4 random characters.
get_css_padding(pad_len) ==
    Comment(CSS_COMMENT_START_SIZE,
            pad_len - CSS_COMMENT_START_SIZE - CSS_COMMENT_END_SIZE,
            CSS_COMMENT_END_SIZE)

\* get_binary_padding: pad_len random bytes.
get_binary_padding(pad_len) == Comment(0, pad_len, 0)

css_has_room_8(size, target_size) == ~(size + 8 > target_size)

\* get_object_padding, line 34: the 4 comment bytes fit.
css_has_room(size, target_size) == ~(size + 4 > target_size)

\* get_object_padding: what is extended to the content of `object`, None
\* when the function returns without padding.  `target_size - size`
\* underflows when the target is below the size.
get_object_padding(kind, size, target_size) ==
    IF target_size < size THEN Panic
    ELSE LET pad_len == target_size - size
         IN  IF kind = "CSS"
             THEN (IF css_has_room(size, target_size)
                   THEN Ok(Some(get_css_padding(pad_len)))
                   ELSE Ok(None))
             ELSE Ok(Some(get_binary_padding(pad_len)))

(* parsing.rs: parse_target_size, and morph_object of morphing.rs *)

\* A string is a sequence of characters; the text "alpaca-padding=" is one
\* element of it.
PARAM == "alpaca-padding="

DigitChars == <<"0", "1", "2", "3", "4", "5", "6", "7", "8", "9">>

IsDigit(c) == \E d \in 1 .. 10 : DigitChars[d] = c
DigitValue(c) == (CHOOSE d \in 1 .. 10 : DigitChars[d] = c) - 1

RECURSIVE DecimalValue(_)
DecimalValue(str) ==
    IF str = << >> THEN 0
    ELSE 10 * DecimalValue(SubSeq(str, 1, Len(str) - 1)) + DigitValue(str[Len(str)])

\* str::parse::<usize>: an optional '+' and at least one digit, nothing
\* else.  (No string of the model is long enough to overflow usize.)
parse_usize_str(str) ==
    LET digits == IF str # << >> /\ str[1] = "+" THEN Tail(str) ELSE str
    IN  IF digits # << >> /\ \A k \in 1 .. Len(digits) : IsDigit(digits[k])
        THEN Ok(DecimalValue(digits))
        ELSE Err("ParseIntError")

\* The positions of c in str.
Occurrences(str, c) == {k \in 1 .. Len(str) : str[k] = c}

Max(S) == CHOOSE x \in S : \A y \in S : y <= x
Min(S) == CHOOSE x \in S : \A y \in S : x <= y

\* str.split(c) and its last piece, its first piece.
last_piece(str, c) ==
    IF Occurrences(str, c) = {} THEN str
    ELSE SubSeq(str, Max(Occurrences(str, c)) + 1, Len(str))

first_piece(str, c) ==
    IF Occurrences(str, c) = {} THEN str
    ELSE SubSeq(str, 1, Min(Occurrences(str, c)) - 1)

\* parse_target_size: the text after the last "alpaca-padding=" (the whole
\* query when there is none) up to the first '&', parsed; 0 on error.
parse_target_size(query) ==
    LET size_str == first_piece(last_piece(query, PARAM), "&")
        r == parse_usize_str(size_str)
    IN  IF r.status = "ok" THEN r.value ELSE 0

(* morphing.rs: append_ref *)

\* usize::to_string
RECURSIVE to_string(_)
to_string(x) ==
    IF x < 10 THEN <<DigitChars[x + 1]>>
    ELSE to_string(x \div 10) \o <<DigitChars[(x % 10) + 1]>>

\* str::split(c): the pieces between the occurrences of c.
RECURSIVE split(_, _)
split(str, c) ==
    IF Occurrences(str, c) = {} THEN <<str>>
    ELSE <<first_piece(str, c)>>
         \o split(SubSeq(str, Min(Occurrences(str, c)) + 1, Len(str)), c)

IsNormalComponent(piece) == piece # << >> /\ piece # <<".">>

\* Path::file_name: the last component, unless there is none or it is "..".
file_name(path) ==
    LET comps == SelectSeq(split(path, "/"), IsNormalComponent)
    IN  IF comps = << >> \/ comps[Len(comps)] = <<".", ".">> THEN None
        ELSE Some(comps[Len(comps)])

\* Path::extension: the text after the last '.' of the file name; None
\* without a file name, without a '.', or when the only '.' is the first
\* character.
extension(path) ==
    LET name == file_name(path)
    IN  IF name = None THEN None
        ELSE IF Occurrences(name[1], ".") = {} \/ Max(Occurrences(name[1], ".")) = 1
             THEN None
             ELSE Some(last_piece(name[1], "."))

\* append_ref, lines 359-385: the link followed by '?' or '&' and the
\* parameter.
new_link(link, size) ==
    LET file_extension == extension(link)[1]
        prefix == IF Occurrences(file_extension, "?") # {} THEN "&" ELSE "?"
    IN  link \o <<prefix, PARAM>> \o to_string(size)

\* append_ref: the reference written into the element; `.extension()
\* .unwrap()` panics on a link whose file name has no extension.
append_ref(link, size) ==
    IF extension(link) = None THEN Panic ELSE Ok(new_link(link, size))

(* dom.rs: uri_to_abs_fs_path *)

starts_with(str, prefix) ==
    Len(str) >= Len(prefix) /\ SubSeq(str, 1, Len(prefix)) = prefix

ends_with(str, c) == str # << >> /\ str[Len(str)] = c

\* Path::parent of the absolute path of a file: the path of its directory.
parent(path) ==
    LET k == Max(Occurrences(path, "/"))
    IN  IF k = 1 THEN <<"/">> ELSE SubSeq(path, 1, k - 1)

\* Lines 186-195: a reference that does not start with '/' is put after
\* the directory of the html.
fs_relative(relative, html_path) ==
    IF starts_with(relative, <<"/">>) THEN relative
    ELSE LET base == parent(html_path)
         IN  base \o (IF ends_with(base, "/") THEN << >> ELSE <<"/">>) \o relative

RECURSIVE normalize_no_pop(_, _)
normalize_no_pop(components, normalized) ==
    IF components = << >> THEN normalized
    ELSE LET comp == Head(components)
         IN  IF comp = <<".">> \/ comp = << >> \/ comp = <<".", ".">>
             THEN normalize_no_pop(Tail(components), normalized)
             ELSE normalize_no_pop(Tail(components), Append(normalized, <<"/">> \o comp))

\* Lines 200-212: the stack of normalized components.
RECURSIVE normalize(_, _)
normalize(components, normalized) ==
    IF components = << >> THEN normalized
    ELSE LET comp == Head(components)
         IN  IF comp = <<".">> \/ comp = << >>
             THEN normalize(Tail(components), normalized)
             ELSE IF comp = <<".", ".">>
             THEN normalize(Tail(components),
                            IF normalized # << >>
                            THEN SubSeq(normalized, 1, Len(normalized) - 1)
                            ELSE normalized)
             ELSE normalize(Tail(components), Append(normalized, <<"/">> \o comp))

\* normalized.into_iter().collect()
RECURSIVE collect(_)
collect(strs) == IF strs = << >> THEN << >> ELSE Head(strs) \o collect(Tail(strs))

\* Line 214: the resolved path, before the alias is looked at.
resolve(relative, html_path) ==
    collect(normalize(split(fs_relative(relative, html_path), "/"), << >>))

is_off_origin(relative) ==
    \/ starts_with(relative, <<"https:", "/", "/">>)
    \/ starts_with(relative, <<"http:", "/", "/">>)

slice_clamped(str, k) == SubSeq(str, 1, IF k <= Len(str) THEN k ELSE Len(str))

\* str[..k]: a panic when k is beyond the end of the string.
slice_to(str, k) == IF k <= Len(str) THEN Ok(SubSeq(str, 1, k)) ELSE Panic

\* uri_to_abs_fs_path: None for another server or a path outside the
\* alias, Some(path in the filesystem) otherwise; a panic when a slice is
\* out of range.
uri_to_abs_fs_path(root, relative, html_path, alias) ==
    IF is_off_origin(relative) THEN Ok(None)
    ELSE LET absolute == resolve(relative, html_path)
             mine == slice_to(html_path, alias)
             theirs == slice_to(absolute, alias)
         IN  IF mine = Panic \/ theirs = Panic THEN Panic
             ELSE IF mine.value # theirs.value THEN Ok(None)
             ELSE Ok(Some(root \o SubSeq(absolute, alias + 1, Len(absolute))))

\* morph_object: the padding returned and the value left in *size.
morph_object(kind, query, size) ==
    LET target_size == parse_target_size(query)
    IN  IF (target_size = 0) \/ (target_size <= size)
        THEN Ok([size |-> 0, padding |-> None])
        ELSE LET r == get_object_padding(kind, size, target_size)
             IN  IF r.status # "ok" THEN r
                 ELSE Ok([size |-> pad_size(r.value), padding |-> r.value])

\* morphing.rs lines 93 and 163: plus 7 because of the comment characters.
html_min_size(h) == content_len(h) + 7

----------------------------------------------------------------------------
(* The size arithmetic called on bounded inputs *)

NoDist == Dist("none", << >>, None)

IdleSample ==
    /\ s_dist = NoDist /\ s_lower = 0 /\ s_i = 0 /\ s_draws = 0 /\ s_below = 0
    /\ s_U = 0 /\ s_out = Pending

IdleMorph ==
    /\ strategy = "none" /\ pc = "idle" /\ html = OriginalHtml /\ found = << >> /\ objects = << >>
    /\ min_count = 0 /\ cfg = << >> /\ specs = << >> /\ dists = None /\ target_count = 0
    /\ target_sizes = << >> /\ idx = 0 /\ next_to_morph = 0 /\ missing = << >>
    /\ morphed = Pending /\ out = None
    /\ doc = NoDoc /\ html_target = None /\ html_size = None

IdleCall == q_fn = "none" /\ q_arg = << >> /\ q_out = Pending

IdleArith ==
    /\ a_fn = "none" /\ a_step = 0 /\ a_bound = 0 /\ a_n = 0 /\ a_out = Pending

InitArith ==
    /\ IdleSample
    /\ IdleMorph
    /\ IdleCall
    /\ a_fn \in {"get_multiple", "get_multiples_in_range"}
    /\ a_step \in 0 .. MaxStep
    /\ a_bound \in 0 .. MaxBound
    /\ a_n \in 0 .. MaxN
    /\ (a_fn = "get_multiple" => a_n = 0)
    /\ a_out = Pending

CallGetMultiple ==
    /\ a_fn = "get_multiple"
    /\ a_out = Pending
    /\ a_out' = IF get_multiple_diverges(a_step, a_bound)
                THEN Diverges
                ELSE Ok(get_multiple(a_step, a_bound))
    /\ UNCHANGED <<a_fn, a_step, a_bound, a_n>>
    /\ UNCHANGED sampleVars
    /\ UNCHANGED <<morphVars, callVars>>

CallGetMultiplesInRange ==
    /\ a_fn = "get_multiples_in_range"
    /\ a_out = Pending
    /\ a_out' \in get_multiples_in_range(a_step, a_bound, a_n)
    /\ UNCHANGED <<a_fn, a_step, a_bound, a_n>>
    /\ UNCHANGED sampleVars
    /\ UNCHANGED <<morphVars, callVars>>

NextArith == CallGetMultiple \/ CallGetMultiplesInRange

SpecArith == InitArith /\ [][NextArith]_vars

----------------------------------------------------------------------------
(* The sampler called on bounded inputs *)

ValueSet == {10, 20, 30}
ProbSet == {0, 2, 3, 5}
LowerBounds == {0, 3, 10, 20, 30, 31}

\* values = [10, 20, 30], probs = [0.2, 0.3, 0.5]
ExampleDist == CustomDist(<<10, 20, 30>>, <<2, 3, 5>>)

\* Every table of at most MaxSupport rows, the empty table included.
CustomDists ==
    {CustomDist(values, probs) :
        <<values, probs>> \in
            {vp \in SeqsUpTo(ValueSet, MaxSupport) \X SeqsUpTo(ProbSet, MaxSupport) :
                Len(vp[1]) = Len(vp[2])}}
    \cup {ExampleDist}

FamilyDists ==
    {Dist("Normal", <<20, 10>>, None), Dist("Exp", <<1>>, None),
     Dist("Poisson", <<4>>, None)}

\* One call of sample on a custom table.
InitDraw ==
    /\ IdleArith
    /\ IdleMorph
    /\ IdleCall
    /\ s_dist \in CustomDists
    /\ s_lower = 0 /\ s_i = 0 /\ s_draws = 0 /\ s_below = 0
    /\ s_U = 0 /\ s_out = Pending

Sample ==
    /\ s_dist.name = "custom"
    /\ s_out = Pending
    /\ \E probability \in OpenClosed01 :
          /\ s_U' = probability
          /\ s_out' = sample_custom(s_dist, probability)
    /\ s_draws' = s_draws + 1
    /\ UNCHANGED <<s_dist, s_lower, s_i, s_below>>
    /\ UNCHANGED arithVars
    /\ UNCHANGED <<morphVars, callVars>>

NextDraw == Sample

SpecDraw == InitDraw /\ [][NextDraw]_vars

\* One call of sample_ge, an iteration of its loop at a time.  The tables
\* with equal weights of 1/2 already give every set of drawable values.
SampleGeDists ==
    {d \in CustomDists : \A i \in 1 .. Len(d.params) : d.params[i] = 5} \cup FamilyDists

InitSampleGe ==
    /\ IdleArith
    /\ IdleMorph
    /\ IdleCall
    /\ s_dist \in SampleGeDists
    /\ s_lower \in LowerBounds
    /\ s_i = 0 /\ s_draws = 0 /\ s_below = 0
    /\ s_U = 0 /\ s_out = Pending

\* The draw o of one iteration, recorded in the history variables.
DrawMade(o) ==
    /\ s_draws' = s_draws + 1
    /\ s_below' = s_below + (IF o # Panic /\ o.value < s_lower THEN 1 ELSE 0)

SampleGeIter_gt ==
    /\ s_out = Pending
    /\ s_i < SAMPLE_LIMIT
    /\ \E o \in sample(s_dist) :
          /\ DrawMade(o)
          /\ IF o = Panic
             THEN s_out' = Panic /\ UNCHANGED s_i
             ELSE IF o.value > s_lower
             THEN s_out' = o /\ UNCHANGED s_i
             ELSE s_i' = s_i + 1 /\ UNCHANGED s_out
    /\ UNCHANGED <<s_dist, s_lower, s_U>>
    /\ UNCHANGED arithVars
    /\ UNCHANGED <<morphVars, callVars>>

\* One iteration: draw; return the draw if it is >= lower_bound.
SampleGeIter ==
    /\ s_out = Pending
    /\ s_i < SAMPLE_LIMIT
    /\ \E o \in sample(s_dist) :
          /\ DrawMade(o)
          /\ IF o = Panic
             THEN s_out' = Panic /\ UNCHANGED s_i
             ELSE IF o.value >= s_lower
             THEN s_out' = o /\ UNCHANGED s_i
             ELSE s_i' = s_i + 1 /\ UNCHANGED s_out
    /\ UNCHANGED <<s_dist, s_lower, s_U>>
    /\ UNCHANGED arithVars
    /\ UNCHANGED <<morphVars, callVars>>

\* The loop is over: Err.
SampleGeExhausted ==
    /\ s_out = Pending
    /\ s_i >= SAMPLE_LIMIT
    /\ s_out' = Exhausted(s_dist)
    /\ UNCHANGED <<s_dist, s_lower, s_i, s_draws, s_below, s_U>>
    /\ UNCHANGED arithVars
    /\ UNCHANGED <<morphVars, callVars>>

NextSampleGe == SampleGeIter \/ SampleGeExhausted

SpecSampleGe == InitSampleGe /\ [][NextSampleGe]_vars

----------------------------------------------------------------------------
(* morphing.rs: morph_html_Dalpaca and morph_html_Palpaca on bounded pages *)

Kinds == {"CSS", "IMG"}
Lens == {0, 5, 50}

\* The objects parse_objects found, sorted by content length (morphing.rs
\* lines 58-59 and 139-140): every page of at most MaxObjects objects, and
\* the pages of up to MaxPage images of 5 bytes.
Pages ==
    {page \in UNION {[1 .. m -> Kinds \X Lens] : m \in 0 .. MaxObjects} :
        \A k \in 1 .. Len(page) - 1 : page[k][2] <= page[k + 1][2]}
    \cup {[k \in 1 .. m |-> <<"IMG", 5>>] : m \in MaxObjects + 1 .. MaxPage}

ObjectsOf(page) == [k \in 1 .. Len(page) |-> RealObject(page[k][1], page[k][2], k)]

\* The document given: its length in bytes, the length of what the parser
\* serializes it to, and whether the parsed document has a node named body
\* (a frameset document has none).
Docs == {[len |-> 20, serialized |-> 25, body |-> TRUE],
         [len |-> 120, serialized |-> 120, body |-> TRUE],
         [len |-> 120, serialized |-> 120, body |-> FALSE],
         [len |-> 400, serialized |-> 390, body |-> TRUE]}

ObjSizes == {0, 4, 30}
MaxObjSizes == {0, 8, 30}

Configs ==
    [obj_num : 0 .. MaxObjNum, obj_size : ObjSizes, max_obj_size : MaxObjSizes]

\* A distribution file of one `value probability` pair a line.
TableFile(values, probs) ==
    FileSpec(TRUE, [k \in 1 .. Len(values) |-> <<IntTok(values[k]), RealTok(probs[k])>>])

HtmlSpec == TableFile(<<300, 2000>>, <<5, 5>>)
CountSpec == TableFile(<<0, 2, 3>>, <<3, 3, 4>>)
SizeSpecA == TableFile(<<10, 53, 100>>, <<2, 3, 5>>)
SizeSpecB == TableFile(<<0, 5, 54>>, <<2, 3, 5>>)
UnknownSpec == NamedSpec(2, "Weibull", <<IntTok(1), IntTok(2)>>)

InitPage(page) ==
    /\ pc = "start"
    /\ html = OriginalHtml
    /\ found = ObjectsOf(page)
    /\ objects = ObjectsOf(page)
    /\ min_count = Len(page)
    /\ dists = None /\ target_count = 0 /\ target_sizes = << >> /\ idx = 0
    /\ next_to_morph = 0 /\ missing = << >> /\ morphed = Pending /\ out = None
    /\ doc \in Docs /\ html_target = None /\ html_size = None

InitDalpaca ==
    /\ strategy = "Dalpaca"
    /\ cfg \in Configs
    /\ specs = << >>
    /\ \E page \in Pages : InitPage(page)

InitPalpaca ==
    /\ strategy = "Palpaca"
    /\ cfg = << >>
    /\ specs \in [html : {HtmlSpec}, obj_num : {CountSpec, UnknownSpec},
                  obj_size : {SizeSpecA, SizeSpecB}]
    /\ \E page \in Pages : InitPage(page)

InitMorph ==
    /\ IdleArith
    /\ IdleSample
    /\ IdleCall
    /\ (InitDalpaca \/ InitPalpaca)

\* The entry point returns `content` (object.as_ptr(), *html_size set).
Return(content) ==
    /\ pc' = "returned"
    /\ out' = Some(content)
    /\ html_size' = Some(content_len(content))

\* A panic unwinds out of the entry point: nothing is returned.
Panicked == pc' = "panicked" /\ UNCHANGED <<out, html_size>>

(* morph_html_Palpaca *)

\* Distributions::from and its match (lines 63-71).
ConstructDistributions ==
    /\ strategy = "Palpaca" /\ pc = "start"
    /\ LET r == Distributions_from(specs.html, specs.obj_num, specs.obj_size)
       IN  CASE r.status = "ok" -> dists' = Some(r.value) /\ pc' = "count" /\ UNCHANGED <<out, html_size>>
             [] r.status = "err" -> Return(html) /\ UNCHANGED dists
             [] OTHER -> Panicked /\ UNCHANGED dists
    /\ UNCHANGED <<doc, html_target, strategy, html, found, objects, min_count, cfg, specs, target_count,
                   target_sizes, idx, next_to_morph, missing, morphed>>
    /\ UNCHANGED <<arithVars, sampleVars, callVars>>

StrategyFailed_serialized(e) ==
    morphed' = e /\ Return(insert_objects_refs(objects, min_count))

\* A strategy function returns Err(e): the entry point returns the html as it is.
StrategyFailed(e) == morphed' = e /\ Return(html)

\* morph_from_distribution, line 219.
SampleTargetCount ==
    /\ strategy = "Palpaca" /\ pc = "count"
    /\ \E o \in sample_ge(dists[1].obj_num, min_count) :
          CASE o.status = "ok" ->
                  target_count' = o.value /\ pc' = "sizes" /\ UNCHANGED <<morphed, out, html_size>>
            [] o.status = "err" -> StrategyFailed(o) /\ UNCHANGED target_count
            [] OTHER -> Panicked /\ UNCHANGED <<target_count, morphed>>
    /\ UNCHANGED <<doc, html_target, strategy, html, found, objects, min_count, cfg, specs, dists,
                   target_sizes, idx, next_to_morph, missing>>
    /\ UNCHANGED <<arithVars, sampleVars, callVars>>

\* morph_from_distribution, lines 221-231: the sizes, sorted.
SampleTargetSizes ==
    /\ strategy = "Palpaca" /\ pc = "sizes"
    /\ \E o \in sample_ge_many(dists[1].obj_size, 1, target_count) :
          CASE o.status = "ok" ->
                  /\ target_sizes' = sort(o.value)
                  /\ idx' = 0 /\ next_to_morph' = 0
                  /\ pc' = "match" /\ UNCHANGED <<morphed, out, html_size>>
            [] o.status = "err" ->
                  StrategyFailed(o) /\ UNCHANGED <<target_sizes, idx, next_to_morph>>
            [] OTHER -> Panicked /\ UNCHANGED <<target_sizes, idx, next_to_morph, morphed>>
    /\ UNCHANGED <<doc, html_target, strategy, html, found, objects, min_count, cfg, specs, dists,
                   target_count, missing>>
    /\ UNCHANGED <<arithVars, sampleVars, callVars>>

\* One iteration of `for s in target_sizes` (lines 233-258).
MatchTargetSize ==
    /\ strategy = "Palpaca" /\ pc = "match"
    /\ idx < Len(target_sizes)
    /\ LET s == target_sizes[idx + 1]
       IN  IF ~create_new_obj(objects, next_to_morph, min_count, s)
           THEN /\ objects' = [objects EXCEPT ![next_to_morph + 1].target_size = Some(s)]
                /\ next_to_morph' = next_to_morph + 1
           ELSE /\ objects' = push(objects, PaddingObject(s))
                /\ UNCHANGED next_to_morph
    /\ idx' = idx + 1
    /\ UNCHANGED <<doc, html_target, strategy, pc, html, found, min_count, cfg, specs, dists, target_count,
                   target_sizes, missing, morphed, out, html_size>>
    /\ UNCHANGED <<arithVars, sampleVars, callVars>>

unpadded_from_start(objs, next, initial_obj_no) ==
    [k \in 1 .. initial_obj_no |-> objs[k].uri]

\* Lines 261-262: the uris of objects[next_to_morph..initial_obj_no].
unpadded(objs, next, initial_obj_no) ==
    [k \in 1 .. initial_obj_no - next |-> objs[next + k].uri]

\* After the loop (lines 260-269): the warning, and Ok(()).
MatchDone ==
    /\ strategy = "Palpaca" /\ pc = "match"
    /\ idx >= Len(target_sizes)
    /\ missing' = IF next_to_morph < min_count
                  THEN unpadded(objects, next_to_morph, min_count)
                  ELSE << >>
    /\ morphed' = Ok(<< >>)
    /\ pc' = "refs"
    /\ UNCHANGED <<doc, html_target, strategy, html, found, objects, min_count, cfg, specs, dists, target_count,
                   target_sizes, idx, next_to_morph, out, html_size>>
    /\ UNCHANGED <<arithVars, sampleVars, callVars>>

(* morph_html_Dalpaca *)

\* morph_deterministic, line 283.  With obj_num = 0 and objects on the page
\* the loop of get_multiple never exits: the step changes nothing.
DetTargetCount ==
    /\ strategy = "Dalpaca" /\ pc = "start"
    /\ IF get_multiple_diverges(cfg.obj_num, min_count)
       THEN UNCHANGED <<pc, target_count, idx>>
       ELSE /\ target_count' = get_multiple(cfg.obj_num, min_count)
            /\ idx' = 0
            /\ pc' = "assign"
    /\ UNCHANGED <<doc, html_target, strategy, html, found, objects, min_count, cfg, specs, dists,
                   target_sizes, next_to_morph, missing, morphed, out, html_size>>
    /\ UNCHANGED <<arithVars, sampleVars, callVars>>

\* One iteration of `for i in 0..objects.len()` (lines 285-294).
DetAssign ==
    /\ strategy = "Dalpaca" /\ pc = "assign"
    /\ idx < Len(objects)
    /\ IF get_multiple_diverges(cfg.obj_size, min_size(objects[idx + 1]))
       THEN UNCHANGED <<objects, idx>>
       ELSE /\ objects' = [objects EXCEPT ![idx + 1].target_size =
                              Some(get_multiple(cfg.obj_size, min_size(objects[idx + 1])))]
            /\ idx' = idx + 1
    /\ UNCHANGED <<doc, html_target, strategy, pc, html, found, min_count, cfg, specs, dists, target_count,
                   target_sizes, next_to_morph, missing, morphed, out, html_size>>
    /\ UNCHANGED <<arithVars, sampleVars, callVars>>

\* Lines 296-300: the sizes of the fake objects, `?` on the Err.
DetFakeSizes ==
    /\ strategy = "Dalpaca" /\ pc = "assign"
    /\ idx >= Len(objects)
    /\ \E o \in get_multiples_in_range(cfg.obj_size, cfg.max_obj_size,
                                       fake_objects_count(target_count, min_count)) :
          CASE o.status = "ok" ->
                  /\ target_sizes' = o.value /\ idx' = 0
                  /\ pc' = "push" /\ UNCHANGED <<morphed, out, html_size>>
            [] o.status = "err" -> StrategyFailed(o) /\ UNCHANGED <<target_sizes, idx>>
            [] OTHER -> Panicked /\ UNCHANGED <<target_sizes, idx, morphed>>
    /\ UNCHANGED <<doc, html_target, strategy, html, found, objects, min_count, cfg, specs, dists, target_count,
                   next_to_morph, missing>>
    /\ UNCHANGED <<arithVars, sampleVars, callVars>>

\* One iteration of `for i in 0..fake_objects_count` (lines 303-313).
DetPush ==
    /\ strategy = "Dalpaca" /\ pc = "push"
    /\ idx < fake_objects_count(target_count, min_count)
    /\ objects' = push(objects, PaddingObject(target_sizes[idx + 1]))
    /\ idx' = idx + 1
    /\ UNCHANGED <<doc, html_target, strategy, pc, html, found, min_count, cfg, specs, dists, target_count,
                   target_sizes, next_to_morph, missing, morphed, out, html_size>>
    /\ UNCHANGED <<arithVars, sampleVars, callVars>>

\* Line 315: Ok(()).
DetDone ==
    /\ strategy = "Dalpaca" /\ pc = "push"
    /\ idx >= fake_objects_count(target_count, min_count)
    /\ morphed' = Ok(<< >>)
    /\ pc' = "refs"
    /\ UNCHANGED <<doc, html_target, strategy, html, found, objects, min_count, cfg, specs, dists, target_count,
                   target_sizes, idx, next_to_morph, missing, out, html_size>>
    /\ UNCHANGED <<arithVars, sampleVars, callVars>>

(* both entry points *)

\* insert_objects_refs(&mut object, &objects, n) (lines 83 and 154).
InsertObjectsRefs ==
    /\ pc = "refs"
    /\ html' = insert_objects_refs(objects, min_count)
    /\ pc' = "html_size"
    /\ UNCHANGED <<doc, html_target, strategy, found, objects, min_count, cfg, specs, dists, target_count,
                   target_sizes, idx, next_to_morph, missing, morphed, out, html_size>>
    /\ UNCHANGED <<arithVars, sampleVars, callVars>>

HtmlSizeFailed_original == Return(OriginalHtml)

\* morph_html_Palpaca lines 96-100: the Err arm returns the html as it is.
HtmlSizeFailed == Return(html)

\* morph_html_Palpaca lines 93-101: the target size of the html is sampled.
SampleHtmlSize ==
    /\ strategy = "Palpaca" /\ pc = "html_size"
    /\ \E o \in sample_ge(dists[1].html, html_min_size(html)) :
          CASE o.status = "ok" ->
                  html_target' = Some(o.value) /\ pc' = "pad" /\ UNCHANGED <<out, html_size>>
            [] o.status = "err" -> HtmlSizeFailed /\ UNCHANGED html_target
            [] OTHER -> Panicked /\ UNCHANGED html_target
    /\ UNCHANGED <<doc, strategy, html, found, objects, min_count, cfg, specs, dists,
                   target_count, target_sizes, idx, next_to_morph, missing, morphed>>
    /\ UNCHANGED <<arithVars, sampleVars, callVars>>

\* morph_html_Dalpaca lines 163-164: a multiple of obj_size.
DetHtmlSize ==
    /\ strategy = "Dalpaca" /\ pc = "html_size"
    /\ IF get_multiple_diverges(cfg.obj_size, html_min_size(html))
       THEN UNCHANGED <<pc, html_target>>
       ELSE /\ html_target' = Some(get_multiple(cfg.obj_size, html_min_size(html)))
            /\ pc' = "pad"
    /\ UNCHANGED <<doc, strategy, html, found, objects, min_count, cfg, specs, dists,
                   target_count, target_sizes, idx, next_to_morph, missing, morphed,
                   out, html_size>>
    /\ UNCHANGED <<arithVars, sampleVars, callVars>>

\* Lines 103-106 and 166-169: the html is padded and returned.
PadHtml ==
    /\ pc = "pad"
    /\ LET r == get_html_padding(html, html_target[1])
       IN  IF r.status = "ok"
           THEN html' = r.value /\ Return(r.value)
           ELSE Panicked /\ UNCHANGED html
    /\ UNCHANGED <<doc, html_target, strategy, found, objects, min_count, cfg, specs, dists,
                   target_count, target_sizes, idx, next_to_morph, missing, morphed>>
    /\ UNCHANGED <<arithVars, sampleVars, callVars>>

NextPalpaca ==
    \/ ConstructDistributions
    \/ SampleTargetCount
    \/ SampleTargetSizes
    \/ MatchTargetSize
    \/ MatchDone
    \/ InsertObjectsRefs
    \/ SampleHtmlSize
    \/ PadHtml

NextMorph ==
    \/ ConstructDistributions
    \/ SampleTargetCount
    \/ SampleTargetSizes
    \/ MatchTargetSize
    \/ MatchDone
    \/ DetTargetCount
    \/ DetAssign
    \/ DetFakeSizes
    \/ DetPush
    \/ DetDone
    \/ InsertObjectsRefs
    \/ SampleHtmlSize
    \/ DetHtmlSize
    \/ PadHtml

SpecMorph == InitMorph /\ [][NextMorph]_vars

\* morph_html_Palpaca on one page, with one of the three specs ranging over
\* the well-formed and the malformed ones.
FamilyNames == {"Normal", "LogNormal", "Exp", "Poisson", "Binomial", "Gamma"}

NamedSpecs ==
    {NamedSpec(1, "Normal", <<RealTok(5)>>), NamedSpec(3, "Normal", <<RealTok(5)>>)}
    \cup {NamedSpec(2, name, params) :
            name \in FamilyNames \cup {"Weibull"},
            params \in UNION {[1 .. m -> {RealTok(5), WordTok}] : m \in 1 .. MaxParams}}

FileLines ==
    {<< >>, <<IntTok(2)>>, <<IntTok(2), RealTok(5), RealTok(5)>>}
    \cup {<<v, p>> : v \in {IntTok(2), IntTok(3), RealTok(5), WordTok},
                     p \in {RealTok(5), IntTok(1), WordTok}}

FileSpecs ==
    {FileSpec(FALSE, << >>)}
    \cup {FileSpec(TRUE, lines) : lines \in SeqsUpTo(FileLines, MaxLines)}

AnySpecs == NamedSpecs \cup FileSpecs

InitDistributions ==
    /\ IdleArith
    /\ IdleSample
    /\ IdleCall
    /\ strategy = "Palpaca"
    /\ cfg = << >>
    /\ \E any \in AnySpecs :
          specs \in {[html |-> any, obj_num |-> CountSpec, obj_size |-> SizeSpecA],
                     [html |-> HtmlSpec, obj_num |-> any, obj_size |-> SizeSpecA],
                     [html |-> HtmlSpec, obj_num |-> CountSpec, obj_size |-> any],
                     [html |-> UnknownSpec, obj_num |-> any, obj_size |-> SizeSpecA],
                     [html |-> HtmlSpec, obj_num |-> UnknownSpec, obj_size |-> any]}
    /\ InitPage(<<<<"IMG", 5>>, <<"CSS", 50>>>>)

SpecDistributions == InitDistributions /\ [][NextPalpaca]_vars

\* The code runs to its end: no step of an entry point waits for anything.
FairSpecMorph == SpecMorph /\ WF_vars(NextMorph)

----------------------------------------------------------------------------
(* morph_object called on bounded inputs *)

QueryChars == {PARAM, "0", "5", "&", "x", "+"}
Queries == SeqsUpTo(QueryChars, MaxQuery)
CurrentSizes == {0, 1, 3, 46, 47, 50, 55}
MimeKinds == {"CSS", "IMG"}

InitObject ==
    /\ IdleArith
    /\ IdleSample
    /\ IdleMorph
    /\ q_fn = "morph_object"
    /\ q_arg \in [kind : MimeKinds, query : Queries, size : CurrentSizes]
    /\ q_out = Pending

CallMorphObject ==
    /\ q_fn = "morph_object"
    /\ q_out = Pending
    /\ q_out' = morph_object(q_arg.kind, q_arg.query, q_arg.size)
    /\ UNCHANGED <<q_fn, q_arg>>
    /\ UNCHANGED <<arithVars, sampleVars, morphVars>>

NextObject == CallMorphObject

SpecObject == InitObject /\ [][NextObject]_vars

----------------------------------------------------------------------------
(* append_ref called on bounded inputs *)

LinkChars == {"a", ".", "/", "?", "&", PARAM, "7"}

\* The part of a reference parse_objects resolves and reads: what is before
\* the first '?'.
path_of(link) == first_piece(link, "?")

\* The references of real objects: parse_objects read a file for them, so
\* the path names a file.
Links == {link \in SeqsUpTo(LinkChars, MaxLink) : Occurrences(path_of(link), "a") # {}}

TargetSizes == {1, 54, 100}

InitRef ==
    /\ IdleArith
    /\ IdleSample
    /\ IdleMorph
    /\ q_fn = "append_ref"
    /\ q_arg \in [link : Links, target_size : TargetSizes]
    /\ q_out = Pending

CallAppendRef ==
    /\ q_fn = "append_ref"
    /\ q_out = Pending
    /\ q_out' = append_ref(q_arg.link, q_arg.target_size)
    /\ UNCHANGED <<q_fn, q_arg>>
    /\ UNCHANGED <<arithVars, sampleVars, morphVars>>

NextRef == CallAppendRef

SpecRef == InitRef /\ [][NextRef]_vars

----------------------------------------------------------------------------
(* parse_objects of dom.rs resolving the references of a page *)

\* The components a reference is made of; "http:" stands for the scheme.
RelComponents == {<< >>, <<".">>, <<".", ".">>, <<"v">>, <<"w">>, <<"e">>, <<"http:">>}

\* The components joined by '/'.
RECURSIVE join(_)
join(comps) ==
    IF Len(comps) = 1 THEN comps[1]
    ELSE comps[1] \o <<"/">> \o join(Tail(comps))

Relatives == {join(comps) : comps \in SeqsUpTo(RelComponents, MaxRel) \ {<< >>}}

\* /v/w/i, the html of the directory /v/w, and a reference next to it.
SiteHtmlPath == <<"/", "v", "/", "w", "/", "i">>
SiteRoot == <<"/", "r">>
SiblingRef == <<"e">>

\* 0: no alias; 4: the alias /v/w; 6: the whole path of the html.
Aliases == {0, 4, 6}

\* The file behind each of the two references: None when fs::read fails,
\* the length of its content otherwise.
SiteFiles == {<<f, Some(2)>> : f \in {None, Some(1)}}

\* parse_objects at reference `next`: the paths handed to fs::read, the
\* references skipped and the objects pushed so far (reference and length
\* of the content).
Discovery(next, read, skipped, status) ==
    [status |-> status, next |-> next, read |-> read, skipped |-> skipped,
     objects |-> << >>]

\* sort_unstable_by, larger first: any order of the objects in which no
\* object comes before a larger one.
larger_first(objs) ==
    {sorted \in [1 .. Len(objs) -> {objs[k] : k \in 1 .. Len(objs)}] :
        /\ \A k \in 1 .. Len(objs) : \E j \in 1 .. Len(objs) : sorted[j] = objs[k]
        /\ \A j \in 1 .. Len(objs) - 1 : sorted[j][2] >= sorted[j + 1][2]}

InitPath ==
    /\ IdleArith
    /\ IdleSample
    /\ IdleMorph
    /\ q_fn = "parse_objects"
    /\ \E relative \in Relatives, alias \in Aliases, files \in SiteFiles :
          q_arg = [root |-> SiteRoot, html_path |-> SiteHtmlPath, alias |-> alias,
                   refs |-> <<relative, SiblingRef>>, files |-> files]
    /\ q_out = Discovery(1, << >>, << >>, "running")

\* dom.rs lines 105-108 and 141-144: None => continue.
skip(reference, r) == r = Ok(None)

\* dom.rs lines 110-113 and 146-149: the object is pushed when fs::read
\* returns the content, Err(_) => continue.
fs_read(objs, k) ==
    IF q_arg.files[k] = None THEN objs ELSE Append(objs, <<k, q_arg.files[k][1]>>)

\* One reference of the page: resolved, then read or skipped.
ResolveReference ==
    /\ q_fn = "parse_objects"
    /\ q_out.status = "running"
    /\ q_out.next <= Len(q_arg.refs)
    /\ LET reference == q_arg.refs[q_out.next]
           r == uri_to_abs_fs_path(q_arg.root, path_of(reference), q_arg.html_path,
                                   q_arg.alias)
       IN  q_out' =
              IF r = Panic
              THEN [q_out EXCEPT !.status = "panic"]
              ELSE IF skip(reference, r)
              THEN [q_out EXCEPT !.next = @ + 1, !.skipped = Append(@, q_out.next)]
              ELSE [q_out EXCEPT !.next = @ + 1,
                                 !.read = Append(@, <<q_out.next, r.value>>),
                                 !.objects = fs_read(@, q_out.next)]
    /\ UNCHANGED <<q_fn, q_arg>>
    /\ UNCHANGED <<arithVars, sampleVars, morphVars>>

\* Every reference was looked at: parse_objects returns.
DiscoveryDone ==
    /\ q_fn = "parse_objects"
    /\ q_out.status = "running"
    /\ q_out.next > Len(q_arg.refs)
    /\ \E sorted \in larger_first(q_out.objects) :
          q_out' = [q_out EXCEPT !.status = "returned", !.objects = sorted]
    /\ UNCHANGED <<q_fn, q_arg>>
    /\ UNCHANGED <<arithVars, sampleVars, morphVars>>

NextPath == ResolveReference \/ DiscoveryDone

SpecPath == InitPath /\ [][NextPath]_vars

----------------------------------------------------------------------------
(* C3 *)

\* C3: sample_ge never makes a 31st draw; when it returns a value, the
\* value is >= f and is the first draw that is >= f (every earlier draw
\* was below f, none follows); when it fails, it has made exactly 30 draws,
\* all below f, and the error names the distribution.  Every outcome is one
\* the loop of sample_ge can produce.
C3_SampleGe ==
    /\ s_draws <= SAMPLE_LIMIT
    /\ s_out # Pending => s_out \in sample_ge(s_dist, s_lower)
    /\ s_out.status = "ok" =>
          /\ s_out.value >= s_lower
          /\ s_below = s_draws - 1
    /\ s_out.status = "err" =>
          /\ s_draws = 30
          /\ s_below = 30
          /\ s_out.error = <<"SAMPLE_LIMIT", 30, s_dist.name>>
    /\ (s_out = Pending /\ s_draws > 0) => s_below = s_draws

C3_Witness ==
    /\ s_out.status = "err" /\ s_draws = 30 /\ s_lower = 31 /\ s_dist.name = "custom"

C3_ReturnWitness ==
    /\ s_out.status = "ok" /\ s_draws = 30 /\ s_out.value >= s_lower /\ s_lower > 0

----------------------------------------------------------------------------
(* C4 *)

RECURSIVE SumTo(_, _)
SumTo(probs, i) == IF i = 0 THEN 0 ELSE SumTo(probs, i - 1) + probs[i]

\* The indices whose cumulative probability reaches U.
Qualifying(dist, U) == {i \in 1 .. Len(dist.params) : SumTo(dist.params, i) >= U}

Smallest(S) == CHOOSE i \in S : \A j \in S : i <= j

\* C4: one draw of a custom distribution with k >= 1 rows returns v[i] for
\* the smallest i whose cumulative sum p[0]+...+p[i] is >= U, and the last
\* value when no index qualifies; values=[10,20,30], probs=[0.2,0.3,0.5]
\* gives U=0.2 -> 10, U=0.5 -> 20, U=1.0 -> 30.
C4_CustomDraw ==
    (s_out.status = "ok" /\ s_U > 0) =>
        LET v == s_dist.values[1]
            Q == Qualifying(s_dist, s_U)
        IN  /\ Q # {} => s_out.value = v[Smallest(Q)]
            /\ Q = {} => s_out.value = v[Len(v)]
            /\ s_dist = ExampleDist =>
                  /\ s_U = 2 => s_out.value = 10
                  /\ s_U = 5 => s_out.value = 20
                  /\ s_U = Resolution => s_out.value = 30

C4_Witness ==
    /\ s_dist = ExampleDist /\ s_U = 5 /\ s_out = Ok(20)

C4_FallbackWitness ==
    /\ s_out.status = "ok" /\ s_U > 0 /\ Qualifying(s_dist, s_U) = {}
    /\ Len(s_dist.params) = 2

----------------------------------------------------------------------------
(* C1 *)

GetMultipleReturned == a_fn = "get_multiple" /\ a_step >= 1 /\ a_out.status = "ok"

\* C1 as stated: for every step s >= 1 and floor f >= 0, f = 0 included,
\* get_multiple(s, f) is a multiple of s, >= f and < f + s.
C1_Original ==
    GetMultipleReturned =>
        /\ a_out.value % a_step = 0
        /\ a_out.value >= a_bound
        /\ a_out.value < a_bound + a_step

\* C1 amended: for s >= 1 the result is a multiple of s and >= f; it is
\* < f + s when f >= 1, and it is s itself (= f + s) when f = 0.  The call
\* returns for every s >= 1.
C1_GetMultiple ==
    (a_fn = "get_multiple" /\ a_step >= 1 /\ a_out # Pending) =>
        /\ a_out.status = "ok"
        /\ a_out.value % a_step = 0
        /\ a_out.value >= a_bound
        /\ (a_bound >= 1 => a_out.value < a_bound + a_step)
        /\ (a_bound = 0 => a_out.value = a_step)

C1_Witness ==
    /\ GetMultipleReturned
    /\ a_step = 3 /\ a_bound = 4 /\ a_out.value = 6

----------------------------------------------------------------------------
(* C2 *)

InvalidRange(step, ceiling) == step > ceiling \/ ceiling % step # 0

----------------------------------------------------------------------------
(* C5 *)

\* The defects of a spec the claim lists.
UnknownName(spec) == ~spec.file /\ spec.parts = 2 /\ spec.name \notin FamilyNames

WrongArity(spec) ==
    /\ ~spec.file /\ spec.parts = 2
    /\ \/ spec.name \in {"Normal", "LogNormal", "Binomial", "Gamma"} /\ Len(spec.params) # 2
       \/ spec.name \in {"Exp", "Poisson"} /\ Len(spec.params) # 1

NonNumericParam(spec) ==
    ~spec.file /\ spec.parts = 2 /\ \E k \in 1 .. Len(spec.params) : spec.params[k] = WordTok

BadLine(spec) ==
    spec.file /\ spec.readable /\ \E k \in 1 .. Len(spec.lines) : Len(spec.lines[k]) # 2

NonNumericFileToken(spec) ==
    /\ spec.file /\ spec.readable
    /\ \E k \in 1 .. Len(spec.lines) :
          /\ Len(spec.lines[k]) = 2
          /\ spec.lines[k][1].lex # "int" \/ spec.lines[k][2].lex = "word"

Malformed(spec) ==
    \/ UnknownName(spec) \/ WrongArity(spec) \/ NonNumericParam(spec)
    \/ BadLine(spec) \/ NonNumericFileToken(spec)

\* C5 as stated: when any one of the three specs is malformed, constructing
\* the Distributions yields a parse error, not a panic: the strategy is not
\* run and the caller returns the original document.
C5_ParseError ==
    (strategy = "Palpaca" /\ pc # "start"
        /\ (Malformed(specs.html) \/ Malformed(specs.obj_num) \/ Malformed(specs.obj_size)))
    => /\ pc = "returned"
       /\ out = Some(OriginalHtml)
       /\ dists = None
       /\ morphed = Pending
       /\ objects = found

----------------------------------------------------------------------------
(* C6 *)

StrategyDone == morphed.status = "ok"

\* C6: in the deterministic strategy with obj_num >= 1, target_count is the
\* multiple of obj_num get_multiple gives for n (6 for n = 4 and for n = 6
\* when obj_num = 3), exactly target_count - n synthetic objects are
\* appended, and after a successful run the list has exactly target_count
\* objects, a multiple of obj_num that is >= n.
C6_DetCount ==
    (strategy = "Dalpaca" /\ cfg.obj_num >= 1 /\ pc # "start") =>
        /\ target_count % cfg.obj_num = 0
        /\ target_count >= min_count
        /\ target_count >= cfg.obj_num
        /\ target_count - cfg.obj_num < min_count \/ target_count = cfg.obj_num
        /\ (cfg.obj_num = 3 /\ min_count \in {4, 6}) => target_count = 6
        /\ Len(objects) <= target_count
        /\ StrategyDone =>
              /\ Len(objects) = target_count
              /\ Cardinality({k \in 1 .. Len(objects) : objects[k].kind = "Alpaca"})
                    = target_count - min_count
              /\ Len(objects) % cfg.obj_num = 0
              /\ Len(objects) >= min_count

C6_Witness ==
    /\ strategy = "Dalpaca" /\ cfg.obj_num = 3 /\ min_count = 4
    /\ StrategyDone /\ Len(objects) = 6

C6_WitnessSix ==
    /\ strategy = "Dalpaca" /\ cfg.obj_num = 3 /\ min_count = 6
    /\ StrategyDone /\ Len(objects) = 6

----------------------------------------------------------------------------
(* C7 *)

IsMultipleOf(a, b) == \E k \in 0 .. a : a = k * b

\* C7 as stated: whenever obj_size <= max_obj_size and max_obj_size is a
\* multiple of obj_size, the deterministic strategy returns success: no
\* error, no panic, no endless loop, obj_num = 0 and obj_size = 0 included.
C7_DetSucceeds ==
    (strategy = "Dalpaca" /\ cfg.obj_size <= cfg.max_obj_size
        /\ IsMultipleOf(cfg.max_obj_size, cfg.obj_size))
    => <>(morphed = Ok(<< >>))

----------------------------------------------------------------------------
(* C8 *)

\* Real objects of lengths [5, 50], the second CSS, and the sorted draws
\* [10, 53, 100], after morph_from_distribution has returned.
GreedyExample ==
    /\ strategy = "Palpaca"
    /\ found = ObjectsOf(<<<<"IMG", 5>>, <<"CSS", 50>>>>)
    /\ target_sizes = <<10, 53, 100>>
    /\ StrategyDone

Synthetic(objs) == SubSeq(objs, min_count + 1, Len(objs))

\* C8 as stated: resource 1 gets 10, resource 2 gets no target_size and is
\* in the warning, 53 and 100 both become synthetic resources.
C8_Original ==
    GreedyExample =>
        /\ objects[1].target_size = Some(10)
        /\ objects[2].target_size = None
        /\ missing = <<objects[2].uri>>
        /\ Synthetic(objects) = <<PaddingObject(53), PaddingObject(100)>>

\* C8 amended: resource 1 gets 10; 53 < 54 becomes a synthetic resource and
\* the cursor stays on resource 2; 100 is then assigned to resource 2; the
\* warning lists nothing and 53 is the only synthetic resource.
C8_GreedyExample ==
    GreedyExample =>
        /\ objects[1].target_size = Some(10)
        /\ objects[2].target_size = Some(100)
        /\ missing = << >>
        /\ Synthetic(objects) = <<PaddingObject(53)>>

C8_Witness == GreedyExample /\ pc = "refs"

----------------------------------------------------------------------------
(* C9 *)

Required(object) == object.content + (IF object.kind = "CSS" THEN 4 ELSE 0)

TargetsSuffice ==
    \A k \in 1 .. Len(objects) :
        objects[k].target_size # None => objects[k].target_size[1] >= Required(objects[k])

TargetsKept ==
    \A k \in 1 .. Len(objects) :
        objects[k].target_size # None =>
            /\ k <= Len(objects')
            /\ objects'[k].target_size = objects[k].target_size

\* C9: every object, real or synthetic, whose target_size is set has
\* target_size >= its content length, + 4 for CSS; and a target_size that is
\* set is never changed by a later step of the page morph.
C9_TargetSize == []TargetsSuffice /\ [][TargetsKept]_vars

C9_Witness ==
    /\ StrategyDone
    /\ \E k \in 1 .. min_count :
          /\ objects[k].kind = "CSS" /\ objects[k].content = 50
          /\ objects[k].target_size = Some(54)
    /\ Len(objects) > min_count

----------------------------------------------------------------------------
(* C10 *)

RealPrefix ==
    /\ Len(objects) >= min_count
    /\ min_count = Len(found)
    /\ \A k \in 1 .. min_count :
          objects[k] = [found[k] EXCEPT !.target_size = objects[k].target_size]

SyntheticSuffix ==
    \A k \in min_count + 1 .. Len(objects) :
        /\ objects[k].kind = "Alpaca"
        /\ objects[k].content = 0
        /\ objects[k].position = None
        /\ objects[k].target_size # None

IsReal(object) == object.kind # "Alpaca"
IsRealWithTarget(object) == object.kind # "Alpaca" /\ object.target_size # None
IsFake(object) == object.kind = "Alpaca"

\* What the rewriter did, read off the kinds of the objects.
RewriterSplit ==
    pc = "html_size" =>
        LET reals == SelectSeq(objects, IsRealWithTarget)
            fakes == SelectSeq(objects, IsFake)
        IN  /\ html.rewritten =
                  [k \in 1 .. Len(reals) |->
                      <<reals[k].position[1], reals[k].target_size[1]>>]
            /\ fakes = padding_obj(objects, min_count)
            /\ html.fakes = add_padding_objects(doc.body, fakes)

\* C10: in every state of either strategy the list is the n real objects
\* found, in their order, at the first n indices, followed only by padding
\* objects (kind Alpaca, no content, no position, target_size set); and the
\* rewriter rewrites references of the first n only and adds a fake image
\* for each of the others.
C10_Partition ==
    strategy # "none" => (RealPrefix /\ SyntheticSuffix /\ RewriterSplit)

C10_Witness ==
    /\ pc = "html_size" /\ strategy = "Palpaca"
    /\ min_count = 2 /\ Len(objects) = 4
    /\ Len(html.rewritten) = 1 /\ Len(html.fakes) = 2

----------------------------------------------------------------------------
(* C11 *)

\* morph_from_distribution returned the error of an exhausted sample_ge.
SamplingExhausted ==
    /\ strategy = "Palpaca"
    /\ morphed.status = "err"
    /\ morphed.error[1] = "SAMPLE_LIMIT"

\* C11: when the probabilistic strategy fails because the count draw or a
\* size draw used up its 30 draws, no object has a target_size, no padding
\* object was appended, no reference was rewritten, and the entry point
\* has returned the document given, byte for byte, with its length in
\* html_size.
C11_ExhaustionFallback ==
    SamplingExhausted =>
        /\ objects = found
        /\ \A k \in 1 .. Len(objects) : objects[k].target_size = None
        /\ Len(objects) = min_count
        /\ html = OriginalHtml
        /\ pc = "returned"
        /\ out = Some(OriginalHtml)
        /\ content_len(out[1]) = doc.len
        /\ html_size = Some(doc.len)

\* A size draw is exhausted on a page with objects, after the count was drawn.
C11_Witness ==
    /\ SamplingExhausted /\ min_count >= 1 /\ target_count >= 1
    /\ pc = "returned"

\* The count draw is exhausted.
C11_CountWitness ==
    /\ SamplingExhausted /\ min_count >= 4 /\ target_count = 0
    /\ pc = "returned"

----------------------------------------------------------------------------
(* C12 *)

\* The strategy and insert_objects_refs succeeded, and the entry point
\* returned without a target size for the html: sample_ge(&dists.html, ..)
\* was exhausted.
HtmlSizeExhausted ==
    /\ strategy = "Palpaca"
    /\ morphed.status = "ok"
    /\ pc = "returned"
    /\ html_target = None

\* C12: when only the draw of the html size is exhausted, the output is the
\* document with every rewritten reference and every fake image in it and
\* no padding comment; the objects keep their target sizes.
C12_HtmlSizeFallback ==
    HtmlSizeExhausted =>
        /\ out = Some(insert_objects_refs(objects, min_count))
        /\ out[1].document = "serialized"
        /\ out[1].pad = None
        /\ Len(out[1].rewritten)
              = Cardinality({k \in 1 .. min_count : objects[k].target_size # None})
        /\ \A k \in 1 .. min_count :
              objects[k].target_size # None =>
                  \E j \in 1 .. Len(out[1].rewritten) :
                      out[1].rewritten[j] = <<objects[k].position[1], objects[k].target_size[1]>>
        /\ doc.body =>
              out[1].fakes = [k \in 1 .. Len(objects) - min_count |->
                                 objects[min_count + k].target_size[1]]
        /\ html_size = Some(content_len(out[1]))

\* The html size is exhausted on a page with a rewritten reference and a
\* fake image.
C12_Witness ==
    /\ HtmlSizeExhausted
    /\ Len(out[1].rewritten) >= 1 /\ Len(out[1].fakes) >= 1

----------------------------------------------------------------------------
(* C13 *)

\* The html before get_html_padding extended it.
Unpadded(h) == [h EXCEPT !.pad = None]

\* C13: the target handed to get_html_padding is >= the serialized length
\* + 7 in both entry points (a multiple of obj_size in Dalpaca, a draw in
\* Palpaca), so the filler is never negative; the padding is the 4-byte
\* start marker, the filler and the 3-byte end marker, target_size minus
\* the current size in all, and the html returned has length target_size.
C13_HtmlPadding ==
    /\ pc = "pad" =>
          /\ html_target[1] >= content_len(html) + 7
          /\ strategy = "Dalpaca" =>
                html_target[1] = get_multiple(cfg.obj_size, content_len(html) + 7)
          /\ html_pad_len(html, html_target[1]) >= 0
          /\ get_html_padding(html, html_target[1]).status = "ok"
    /\ (pc = "returned" /\ html_target # None) =>
          /\ html.pad # None
          /\ html.pad[1].start = 4 /\ html.pad[1].end = 3 /\ html.pad[1].filler >= 0
          /\ pad_size(html.pad) = html_target[1] - content_len(Unpadded(html))
          /\ content_len(html) = html_target[1]
          /\ out = Some(html)
          /\ html_size = html_target

\* A padded html was returned by Dalpaca, with filler between the markers.
C13_Witness ==
    /\ strategy = "Dalpaca" /\ pc = "returned" /\ html_target # None
    /\ html.pad # None /\ html.pad[1].filler > 0
    /\ html_size = html_target

\* The target is exactly the length plus the markers: the comment is empty.
C13_EmptyFillerWitness ==
    /\ pc = "returned" /\ html.pad # None /\ html.pad[1].filler = 0

----------------------------------------------------------------------------
(* C14 *)

\* morph_object was called for a CSS object with a target above its size.
CssPaddingAsked ==
    /\ q_fn = "morph_object" /\ q_out.status = "ok"
    /\ q_arg.kind = "CSS"
    /\ parse_target_size(q_arg.query) > q_arg.size

CssDelta == parse_target_size(q_arg.query) - q_arg.size

Unchanged == q_out.value.padding = None /\ q_out.value.size = 0

\* C14 as stated: CSS padding asked with a delta of fewer than 8 bytes
\* appends nothing.
C14_Original == (CssPaddingAsked /\ CssDelta < 8) => Unchanged

\* C14 amended: CSS padding asked with a delta of fewer than 4 bytes
\* appends nothing; with a delta of 4 to 7 bytes it appends exactly delta
\* bytes, the two 2-byte comment markers and delta - 4 characters.
C14_CssPadding ==
    CssPaddingAsked =>
        /\ CssDelta < 4 => Unchanged
        /\ CssDelta >= 4 =>
              /\ q_out.value.padding = Some(Comment(2, CssDelta - 4, 2))
              /\ q_out.value.size = CssDelta

\* A delta of 3: nothing appended.
C14_Witness == CssPaddingAsked /\ CssDelta = 3 /\ Unchanged

\* A delta of 5: a comment of 5 bytes.
C14_PaddedWitness == CssPaddingAsked /\ CssDelta = 5 /\ q_out.value.size = 5

----------------------------------------------------------------------------
(* C15 *)

HasParam(query) == Occurrences(query, PARAM) # {}

\* The value of the last alpaca-padding parameter of the query.
ParamValue(query) == parse_usize_str(first_piece(last_piece(query, PARAM), "&"))

\* C15 as stated: morph_object returns empty padding and size 0 whenever
\* the query has no alpaca-padding=<n>, or its value is 0 or no number, or
\* the target is <= the current size.
C15_EmptyPadding ==
    (q_fn = "morph_object" /\ q_out # Pending) =>
        ((\/ ~HasParam(q_arg.query)
          \/ ParamValue(q_arg.query).status # "ok"
          \/ ParamValue(q_arg.query).value = 0
          \/ ParamValue(q_arg.query).value <= q_arg.size)
         => q_out = Ok([size |-> 0, padding |-> None]))

----------------------------------------------------------------------------
(* C16 *)

\* The query string of a reference: what follows its first '?'.
query_of(link) ==
    IF Occurrences(link, "?") = {} THEN << >>
    ELSE SubSeq(link, Min(Occurrences(link, "?")) + 1, Len(link))

\* C16 as stated: for every reference of a real object, with or without a
\* query string, and every target_size T >= 1, the rewriter produces a
\* reference whose query string parse_target_size maps back to T.
C16_RoundTrip ==
    (q_fn = "append_ref" /\ q_out # Pending) =>
        /\ q_out.status = "ok"
        /\ parse_target_size(query_of(q_out.value)) = q_arg.target_size

\* Where append_ref returns, the round trip holds.
C16_RoundTripWhenReturned ==
    (q_fn = "append_ref" /\ q_out.status = "ok") =>
        parse_target_size(query_of(q_out.value)) = q_arg.target_size

----------------------------------------------------------------------------
(* C17 *)

\* Reference k was resolved to a path (it names no other server) whose
\* first alias characters are not the first alias characters of the path
\* of the html, a resolved path shorter than alias included.
OutsideAlias(k) ==
    /\ ~is_off_origin(path_of(q_arg.refs[k]))
    /\ slice_clamped(resolve(path_of(q_arg.refs[k]), q_arg.html_path), q_arg.alias)
          # slice_clamped(q_arg.html_path, q_arg.alias)

\* parse_objects has dealt with reference k, or has stopped at it.
Reached(k) ==
    \/ q_out.next > k
    \/ q_out.next = k /\ q_out.status = "panic"

\* C17 as stated: a reference resolved outside the alias is skipped: no
\* file is read for it, there is no panic, and parse_objects goes on to
\* the next reference.
C17_PathContainment ==
    q_fn = "parse_objects" =>
        \A k \in 1 .. Len(q_arg.refs) :
            (OutsideAlias(k) /\ Reached(k)) =>
                /\ q_out.status # "panic"
                /\ \E j \in 1 .. Len(q_out.skipped) : q_out.skipped[j] = k
                /\ \A j \in 1 .. Len(q_out.read) : q_out.read[j][1] # k
                /\ q_out.next > k

\* Where the resolved path is at least alias characters long, the claim holds.
C17_LongEnough ==
    q_fn = "parse_objects" =>
        \A k \in 1 .. Len(q_arg.refs) :
            (/\ OutsideAlias(k) /\ Reached(k)
             /\ Len(resolve(path_of(q_arg.refs[k]), q_arg.html_path)) >= q_arg.alias) =>
                /\ q_out.status # "panic"
                /\ \E j \in 1 .. Len(q_out.skipped) : q_out.skipped[j] = k
                /\ \A j \in 1 .. Len(q_out.read) : q_out.read[j][1] # k

----------------------------------------------------------------------------
(* C18 *)

\* The loop over the real objects (lines 285-294) is over.
AllAssigned == strategy = "Dalpaca" /\ pc \notin {"start", "assign"}

\* C18: in the deterministic strategy every real object receives
\* target_size = get_multiple(obj_size, L + overhead), overhead 4 for CSS
\* and 0 otherwise; after a successful run every real object has a
\* target_size that is a positive multiple of obj_size and every padding
\* object one that is a multiple of obj_size in [obj_size, max_obj_size].
C18_DetSizes ==
    strategy = "Dalpaca" =>
        /\ \A k \in 1 .. min_count :
              /\ AllAssigned => objects[k].target_size # None
              /\ objects[k].target_size # None =>
                    objects[k].target_size[1]
                        = get_multiple(cfg.obj_size, Required(found[k]))
        /\ StrategyDone =>
              /\ cfg.obj_size >= 1
              /\ \A k \in 1 .. min_count :
                    /\ objects[k].target_size[1] > 0
                    /\ objects[k].target_size[1] % cfg.obj_size = 0
              /\ \A k \in min_count + 1 .. Len(objects) :
                    /\ objects[k].target_size[1] % cfg.obj_size = 0
                    /\ objects[k].target_size[1] >= cfg.obj_size
                    /\ objects[k].target_size[1] <= cfg.max_obj_size

\* A CSS object of 50 bytes got get_multiple(4, 54) = 56 and a padding
\* object was added.
C18_Witness ==
    /\ strategy = "Dalpaca" /\ StrategyDone /\ cfg.obj_size = 4
    /\ \E k \in 1 .. min_count :
          /\ found[k].kind = "CSS" /\ found[k].content = 50
          /\ objects[k].target_size = Some(56)
    /\ Len(objects) > min_count

----------------------------------------------------------------------------
(* C19 *)

IsAscending(sizes) == \A k \in 1 .. Len(sizes) - 1 : sizes[k] <= sizes[k + 1]

\* The sizes are taken in ascending order and the real objects are in
\* ascending order of content length.
GreedyOrder ==
    strategy = "Palpaca" =>
        /\ IsAscending(target_sizes)
        /\ IsAscending([k \in 1 .. min_count |-> objects[k].content])

\* One size s is dealt with: it goes to the object under the cursor, and
\* the cursor advances by one, exactly when the cursor is below n and s is
\* at least what that object requires; otherwise s becomes a new padding
\* object at the end and the cursor stays.
GreedyStep ==
    (strategy = "Palpaca" /\ pc = "match" /\ idx' # idx) =>
        LET s == target_sizes[idx + 1]
            fits == /\ next_to_morph < min_count
                    /\ s >= Required(objects[next_to_morph + 1])
        IN  /\ idx' = idx + 1
            /\ fits =>
                  /\ objects' = [objects EXCEPT
                                    ![next_to_morph + 1].target_size = Some(s)]
                  /\ next_to_morph' = next_to_morph + 1
            /\ ~fits =>
                  /\ objects' = Append(objects, PaddingObject(s))
                  /\ next_to_morph' = next_to_morph

\* C19: greedy matching takes the drawn sizes in ascending order with a
\* cursor over the real objects sorted by content length; a size is
\* assigned to the object under the cursor, advancing it, exactly when the
\* cursor is < n and the size is >= the object's requirement (content
\* length, + 4 for CSS), equality included; every other size becomes a
\* padding object and the cursor does not move.
C19_Greedy == []GreedyOrder /\ [][GreedyStep]_vars

\* Equality matched: a CSS object of 50 bytes got exactly 54, an image of 5
\* bytes exactly 5, and a size was left over for a padding object.
C19_Witness ==
    /\ strategy = "Palpaca" /\ pc = "refs" /\ min_count = 2
    /\ found[1].kind = "IMG" /\ objects[1].target_size = Some(found[1].content)
    /\ found[1].content = 5
    /\ found[2].kind = "CSS" /\ objects[2].target_size = Some(found[2].content + 4)
    /\ Len(objects) > min_count

----------------------------------------------------------------------------
(* C20 *)

\* morph_from_distribution is over with the cursor before n.
CursorShort ==
    /\ strategy = "Palpaca"
    /\ pc \in {"refs", "html_size", "pad", "returned"}
    /\ morphed # Pending /\ morphed.status # "err"
    /\ next_to_morph < min_count

\* C20: when greedy matching ends with the cursor at c < n, the strategy
\* returns success; the objects at sorted positions [c, n) and no others
\* have target_size unset and are the ones named in the warning, those at
\* [0, c) have it set, and insert_objects_refs adds no parameter to the
\* reference of an object whose target_size is unset.
C20_Unpadded ==
    CursorShort =>
        /\ morphed = Ok(<< >>)
        /\ \A k \in 1 .. next_to_morph : objects[k].target_size # None
        /\ \A k \in next_to_morph + 1 .. min_count : objects[k].target_size = None
        /\ missing = [k \in 1 .. min_count - next_to_morph |-> found[next_to_morph + k].uri]
        /\ html.document = "serialized" =>
              /\ \A k \in next_to_morph + 1 .. min_count :
                    \A j \in 1 .. Len(html.rewritten) :
                        html.rewritten[j][1] # objects[k].position[1]
              /\ Len(html.rewritten) = next_to_morph

\* The cursor stopped at 1 of 2: the first reference was rewritten, the
\* second was left alone, and the entry point returned a page.
C20_Witness ==
    /\ CursorShort /\ next_to_morph = 1 /\ min_count = 2
    /\ pc = "returned" /\ out # None
    /\ Len(html.rewritten) = 1 /\ Len(missing) = 1

----------------------------------------------------------------------------
(* C21 *)

\* The target sizes set on the objects, in the order of the objects.
AssignedSizes(objs) ==
    LET with_target == SelectSeq(objs, HasTarget)
    IN  [k \in 1 .. Len(with_target) |-> with_target[k].target_size[1]]

\* C21: after a successful probabilistic run that drew target_count sizes,
\* every drawn size is used exactly once: the target sizes of all objects,
\* real and padding, are the drawn sizes as a multiset; exactly
\* target_count objects have a target_size; every size is >= 1; and the
\* list has n + (target_count - matched) objects, at least n.
C21_SizesUsedOnce ==
    (strategy = "Palpaca" /\ StrategyDone) =>
        /\ Len(target_sizes) = target_count
        /\ sort(AssignedSizes(objects)) = target_sizes
        /\ Len(AssignedSizes(objects)) = target_count
        /\ \A k \in 1 .. Len(objects) :
              objects[k].target_size # None => objects[k].target_size[1] >= 1
        /\ Len(objects) = min_count + (target_count - next_to_morph)
        /\ Len(objects) >= min_count

\* Three sizes were drawn, one matched a real object and two became
\* padding objects.
C21_Witness ==
    /\ strategy = "Palpaca" /\ StrategyDone
    /\ target_count = 3 /\ next_to_morph = 1 /\ min_count >= 1
    /\ Len(objects) = min_count + 2

----------------------------------------------------------------------------
(* C22 *)

\* C22 as stated: every spec that Distributions::from accepted can be
\* drawn from: no draw of a constructed distribution panics.
C22_Drawable == dists # None => pc # "panicked"

----------------------------------------------------------------------------
(* C23 *)

\* The reference already has a query string.
HasQuery(link) == Occurrences(link, "?") # {}

\* The reference with alpaca-padding=<size> appended, after '&' when it has
\* a query string and after '?' otherwise.
WithParam(link, size) ==
    link \o <<IF HasQuery(link) THEN "&" ELSE "?", PARAM>> \o to_string(size)

\* C23 as stated: for every reference of a real object with a target_size,
\* one without a file extension included, append_ref produces the
\* reference with alpaca-padding=<target_size> appended, joined with '&'
\* when the reference has a query string and with '?' otherwise.
C23_AppendedParam ==
    (q_fn = "append_ref" /\ q_out # Pending) =>
        q_out = Ok(WithParam(q_arg.link, q_arg.target_size))

\* Without a query string, and with an extension, the reference is as claimed.
C23_PlainReference ==
    (q_fn = "append_ref" /\ q_out # Pending /\ ~HasQuery(q_arg.link)
        /\ extension(q_arg.link) # None) =>
        q_out = Ok(WithParam(q_arg.link, q_arg.target_size))

\* A reference with a query string is joined with '?' again.
C23_WrongJoin ==
    /\ q_fn = "append_ref" /\ q_out.status = "ok" /\ HasQuery(q_arg.link)
    /\ q_out.value = q_arg.link \o <<"?", PARAM>> \o to_string(q_arg.target_size)

----------------------------------------------------------------------------
(* C24 *)

\* insert_objects_refs has built the document.
Rewritten == pc \in {"html_size", "pad", "returned"} /\ html.document = "serialized"

\* The fake images in the document are those of the padding objects, one
\* each, in their order.
FakeForEachSynthetic ==
    /\ Len(html.fakes) = Len(objects) - min_count
    /\ \A k \in 1 .. Len(html.fakes) :
          html.fakes[k] = objects[min_count + k].target_size[1]

\* C24 as stated: once the references are rewritten, the document holds
\* exactly one fake image for every padding object, with its target_size,
\* in the order of the list, whether or not the document has a body.
C24_FakeElements == Rewritten => FakeForEachSynthetic

\* In a document with a body the fake images are as claimed.
C24_FakeElementsInBody == (Rewritten /\ doc.body) => FakeForEachSynthetic

\* A document without a body keeps no fake image although the list has
\* padding objects.
C24_NoBodyNoFakes ==
    Rewritten /\ ~doc.body /\ Len(objects) - min_count = 2 /\ html.fakes = << >>

----------------------------------------------------------------------------
(* C25 *)

\* The references parse_objects neither skipped for their path nor failed
\* to read.
Discovered ==
    {k \in 1 .. Len(q_arg.refs) :
        /\ ~is_off_origin(path_of(q_arg.refs[k]))
        /\ \A j \in 1 .. Len(q_out.skipped) : q_out.skipped[j] # k
        /\ q_arg.files[k] # None}

\* No path is resolved or read for a reference to another server.
OffOriginNeverRead ==
    \A k \in 1 .. Len(q_arg.refs) :
        is_off_origin(path_of(q_arg.refs[k])) =>
            \A j \in 1 .. Len(q_out.read) : q_out.read[j][1] # k

\* The list returned has one object for every reference discovered, and
\* nothing else.
OneObjectEach ==
    q_out.status = "returned" =>
        /\ Len(q_out.objects) = Cardinality(Discovered)
        /\ \A k \in Discovered :
              \E j \in 1 .. Len(q_out.objects) : q_out.objects[j] = <<k, q_arg.files[k][1]>>

\* C25 as stated: parse_objects never aborts; a reference to another
\* server is never resolved or read; a reference outside the alias or one
\* whose read fails is skipped; the list returned holds exactly one object
\* for every other reference, whatever was skipped before it.
C25_DiscoveryNeverAborts ==
    q_fn = "parse_objects" =>
        /\ q_out.status # "panic"
        /\ OffOriginNeverRead
        /\ OneObjectEach

\* Unless a slice panics, the skips and the list returned are as claimed.
C25_SkipsWhenReturning ==
    q_fn = "parse_objects" => (OffOriginNeverRead /\ OneObjectEach)

\* The first reference is skipped, the second one is read and returned.
C25_LaterReferenceRead ==
    /\ q_fn = "parse_objects" /\ q_out.status = "returned"
    /\ q_out.skipped = <<1>> /\ q_out.objects = <<<<2, 2>>>>

----------------------------------------------------------------------------
(* C26 *)

\* The segments of the path handed to the normalisation for reference k.
Segments(k) == split(fs_relative(path_of(q_arg.refs[k]), q_arg.html_path), "/")

\* The stack after the first m segments: an empty segment and `.` leave
\* it as it is, `..` takes the last segment off when there is one, any
\* other segment is put on it.
RECURSIVE StackAfter(_, _)
StackAfter(segs, m) ==
    IF m = 0 THEN << >>
    ELSE LET stack == StackAfter(segs, m - 1)
             seg == segs[m]
         IN  IF seg = << >> \/ seg = <<".">> THEN stack
             ELSE IF seg = <<".", ".">>
             THEN IF stack = << >> THEN stack ELSE SubSeq(stack, 1, Len(stack) - 1)
             ELSE Append(stack, seg)

PathOf(stack) == collect([j \in 1 .. Len(stack) |-> <<"/">> \o stack[j]])

DotDots(m) == [j \in 1 .. m |-> <<".", ".">>]

\* C26: for every reference parse_objects resolves, the resolved path is
\* the stack built segment by segment (empty and `.` dropped, `..` pops
\* when the stack is not empty and is ignored otherwise, anything else
\* pushed); it has no `.` or `..` segment; the same path with one or two
\* `..` segments in front of it resolves to the same result; and without
\* an alias the file read is the root followed by that path.
C26_Normalisation ==
    q_fn = "parse_objects" =>
        \A k \in 1 .. Len(q_arg.refs) :
            (Reached(k) /\ ~is_off_origin(path_of(q_arg.refs[k]))) =>
                LET segs == Segments(k)
                    absolute == resolve(path_of(q_arg.refs[k]), q_arg.html_path)
                    resolved == split(absolute, "/")
                IN  /\ absolute = PathOf(StackAfter(segs, Len(segs)))
                    /\ \A j \in 1 .. Len(resolved) :
                          resolved[j] # <<".">> /\ resolved[j] # <<".", ".">>
                    /\ \A m \in 1 .. 2 :
                          collect(normalize(DotDots(m) \o segs, << >>)) = absolute
                    /\ (q_arg.alias = 0 /\ q_out.next > k) =>
                          \E j \in 1 .. Len(q_out.read) :
                              q_out.read[j] = <<k, Some(q_arg.root \o absolute)>>

\* ../../../e from /v/w/i: two segments popped, the third `..` ignored on
\* the empty stack, e pushed; /r/e is read.
C26_Witness ==
    /\ q_fn = "parse_objects" /\ q_arg.alias = 0
    /\ q_arg.refs[1] = <<".", ".", "/", ".", ".", "/", ".", ".", "/", "e">>
    /\ q_out.next > 1
    /\ q_out.read[1] = <<1, Some(<<"/", "r", "/", "e">>)>>

----------------------------------------------------------------------------
(* morph_object asked for the objects of a page morph_html_Dalpaca returned *)

ServedLens == {0, 4, 5, 50}

\* The pages of at most MaxObjects objects, sorted by content length.
ServedPages ==
    {page \in UNION {[1 .. m -> Kinds \X ServedLens] : m \in 1 .. MaxObjects} :
        \A k \in 1 .. Len(page) - 1 : page[k][2] <= page[k + 1][2]}

\* The references the objects have in the page: a.a, a.a?7, a?. and
\* a.a?alpaca-padding=7.
ServedLinks ==
    {<<"a", ".", "a">>, <<"a", ".", "a", "?", "7">>, <<"a", "?", ".">>,
     <<"a", ".", "a", "?", PARAM, "7">>}

InitServed ==
    /\ IdleArith
    /\ IdleSample
    /\ IdleCall
    /\ strategy = "Dalpaca"
    /\ cfg \in Configs
    /\ specs = << >>
    /\ \E page \in ServedPages : InitPage(page)

\* The page was returned with its references rewritten: the request for
\* object k arrives with the query of its rewritten reference and the
\* length of its file, and morph_object is called.
ServeObject ==
    /\ pc = "returned" /\ out # None /\ out[1].document = "serialized"
    /\ \E k \in 1 .. min_count, link \in ServedLinks :
          /\ objects[k].target_size # None
          /\ LET r == append_ref(link, objects[k].target_size[1])
             IN  /\ r.status = "ok"
                 /\ q_arg' = [kind |-> objects[k].kind, query |-> query_of(r.value),
                              size |-> objects[k].content, object |-> k]
          /\ q_fn' = "morph_object"
          /\ q_out' = morph_object(q_arg'.kind, q_arg'.query, q_arg'.size)
    /\ UNCHANGED <<arithVars, sampleVars, morphVars>>

NextServed ==
    \/ DetTargetCount
    \/ DetAssign
    \/ DetFakeSizes
    \/ DetPush
    \/ DetDone
    \/ InsertObjectsRefs
    \/ DetHtmlSize
    \/ PadHtml
    \/ ServeObject

SpecServed == InitServed /\ [][NextServed]_vars

----------------------------------------------------------------------------
(* C27 *)

\* morph_object has answered the request for an object of the page.
Served == q_fn = "morph_object" /\ q_out # Pending

ServedLength == objects[q_arg.object].content
ServedTarget == objects[q_arg.object].target_size[1]

\* C27: in the deterministic strategy, morph_object called with the query
\* of the rewritten reference of a real object of length L and target T
\* returns exactly T - L bytes (none when T = L), so that L plus the
\* padding is T, a multiple of obj_size; for a CSS object the 4 comment
\* bytes always fit and the padding is the comment /* ... */ of T - L
\* bytes.
C27_ServedSize ==
    Served =>
        /\ q_out.status = "ok"
        /\ q_out.value.size = ServedTarget - ServedLength
        /\ pad_size(q_out.value.padding) = ServedTarget - ServedLength
        /\ ServedLength + q_out.value.size = ServedTarget
        /\ \E m \in 0 .. ServedTarget : ServedTarget = m * cfg.obj_size
        /\ ServedTarget = ServedLength => q_out.value.padding = None
        /\ q_arg.kind = "CSS" =>
              /\ css_has_room(ServedLength, ServedTarget)
              /\ q_out.value.padding =
                    Some(Comment(CSS_COMMENT_START_SIZE,
                                 ServedTarget - ServedLength - 4,
                                 CSS_COMMENT_END_SIZE))

\* A CSS object of 5 bytes, obj_size 4: the target is 12, the reference
\* a.a?7 became a.a?7&alpaca-padding=12, and the padding is a comment of
\* 7 bytes.
C27_Witness ==
    /\ Served /\ q_arg.kind = "CSS" /\ ServedLength = 5 /\ ServedTarget = 12
    /\ q_arg.query = <<"7", "&", PARAM, "1", "2">>
    /\ q_out.value.size = 7
    /\ q_out.value.padding = Some(Comment(2, 3, 2))

\* An image of 4 bytes with obj_size 4: the target is its length and
\* nothing is added.
C27_ExactFit ==
    /\ Served /\ q_arg.kind = "IMG" /\ ServedLength = 4 /\ ServedTarget = 4
    /\ q_out = Ok([size |-> 0, padding |-> None])

====
